---------------------------- MODULE Spec2Model ----------------------------
(***************************************************************************)
(* BinaryStreamWriter of iolib.py: a writer over one binary file, with the *)
(* byte order chosen at construction.                                      *)
(*                                                                         *)
(* The state is the writer's two private fields that matter (the byte     *)
(* order prefix and the file handle), the file the handle writes to (its  *)
(* content and the handle's position), and where the caller stands in a   *)
(* `with` statement. Every method is one action.                          *)
(*                                                                         *)
(* Python integers are unbounded and TLC's are 32 bits wide, so an integer *)
(* argument n of a numeric write is carried as the pair                    *)
(* <<n \div 2^16, n % 2^16>> (floor division), which is exact for every    *)
(* value used here, the 4-byte boundaries 2^31, 2^32 - 1 and 2^32          *)
(* included.                                                               *)
(***************************************************************************)
EXTENDS Integers, Sequences, FiniteSets, TLC

VARIABLES
    ctor,      \* the endian argument __init__ was called with (history)
    endian,    \* self.__endian: "<" or ">"
    fp,        \* self.__fp: "None", "open" (an open file object) or "closed"
    sink,      \* content of the file at output_path: a sequence of bytes
    pos,       \* position of the file object self.__fp
    scope,     \* "out", or "body" inside `with writer:`
    pending,   \* the exception raised in the with body, on its way to __exit__
    surfaced,  \* the exception the last `with` statement let out to its caller
    last,      \* the last call: [op, arg, ret, err]
    budget     \* successful writes left in this run (bounds the model)

vars == <<ctor, endian, fp, sink, pos, scope, pending, surfaced, last, budget>>

---------------------------------------------------------------------------
(* Module constants of iolib.py *)
LITTLE_ENDIAN == 0
BIG_ENDIAN == 1
SEEK_BEGINNING == 0
SEEK_CURRENT == 1
SEEK_END == 2

(* Bounds of the model *)
MaxNumWrites == 2      \* successful writes per run, numeric sessions
MaxStrWrites == 2      \* successful writes per run, string sessions
MaxPosWrites == 2      \* successful writes per run, positioning sessions
MaxLifeWrites == 1     \* successful writes per run, lifecycle sessions
MaxPos == 5            \* seek and skip are taken up to this position

---------------------------------------------------------------------------
(* Integers as pairs <<hi, lo>>, value hi * 2^16 + lo with lo in 0..65535 *)
Half == 256 * 256

N(n) == <<n \div Half, n % Half>>

Leq(a, b) == a[1] < b[1] \/ (a[1] = b[1] /\ a[2] <= b[2])

Max(a, b) == IF a >= b THEN a ELSE b

Reverse(s) == [i \in 1..Len(s) |-> s[Len(s) + 1 - i]]

(* The results of a call *)
RInt(n) == <<"int", n>>
RSelf == <<"self">>
RNone == <<"None">>
RRaise == <<"raise">>

---------------------------------------------------------------------------
(* struct.pack with a byte-order prefix: standard sizes, no alignment *)
\* the bug of packing with native sizes: a C long of 8 bytes
StructSizeNative(c) ==
    CASE c \in {"b", "B"} -> 1
      [] c \in {"h", "H"} -> 2
      [] c \in {"i", "I"} -> 4
      [] c \in {"l", "L"} -> 8

StructSize(c) ==
    CASE c \in {"b", "B"} -> 1
      [] c \in {"h", "H"} -> 2
      [] c \in {"i", "I", "l", "L"} -> 4

StructSigned(c) == c \in {"b", "h", "i", "l"}

StructMin(c) ==
    IF ~StructSigned(c) THEN N(0)
    ELSE CASE StructSize(c) = 1 -> N(-128)
           [] StructSize(c) = 2 -> N(-32768)
           [] OTHER -> <<-32768, 0>>

StructMax(c) ==
    CASE StructSize(c) = 1 -> IF StructSigned(c) THEN N(127) ELSE N(255)
      [] StructSize(c) = 2 -> IF StructSigned(c) THEN N(32767) ELSE N(65535)
      [] OTHER -> IF StructSigned(c) THEN <<32767, 65535>> ELSE <<65535, 65535>>

StructInRange(c, n) == Leq(StructMin(c), n) /\ Leq(n, StructMax(c))

\* byte i (1 = least significant) of the two's complement pattern of n
PatternByte(n, i) ==
    CASE i = 1 -> n[2] % 256
      [] i = 2 -> n[2] \div 256
      [] i = 3 -> (n[1] % Half) % 256
      [] i = 4 -> (n[1] % Half) \div 256
      [] OTHER -> IF n[1] < 0 THEN 255 ELSE 0

\* the bug of packing in the byte order of the machine, whatever the prefix
PackBytesNative(order, c, n) == [i \in 1..StructSize(c) |-> PatternByte(n, i)]

PackBytes(order, c, n) ==
    LET lsb == [i \in 1..StructSize(c) |-> PatternByte(n, i)]
    IN  IF order = "<" THEN lsb ELSE Reverse(lsb)

\* the bug of masking the value to the width instead of checking its range
PackWrap(order, c, n) == [err |-> "none", buf |-> PackBytes(order, c, n)]

\* pack(order + c, n): the bytes, or struct.error for a value out of range
Pack(order, c, n) ==
    IF StructInRange(c, n)
    THEN [err |-> "none", buf |-> PackBytes(order, c, n)]
    ELSE [err |-> "struct.error", buf |-> <<>>]

---------------------------------------------------------------------------
(* str.encode: a string is its sequence of code points *)
IsAscii(s) == \A i \in 1..Len(s) : s[i] < 128

IsSurrogate(c) == c >= 55296 /\ c <= 57343

Utf8Char(c) ==
    CASE c < 128 -> <<c>>
      [] c >= 128 /\ c < 2048 -> <<192 + (c \div 64), 128 + (c % 64)>>
      [] c >= 2048 /\ c < 65536 ->
            <<224 + (c \div 4096), 128 + ((c \div 64) % 64), 128 + (c % 64)>>
      [] OTHER ->
            <<240 + (c \div 262144), 128 + ((c \div 4096) % 64),
              128 + ((c \div 64) % 64), 128 + (c % 64)>>

RECURSIVE Utf8Bytes(_)
Utf8Bytes(s) == IF s = <<>> THEN <<>> ELSE Utf8Char(Head(s)) \o Utf8Bytes(Tail(s))

\* the bug of encoding with errors="replace": "?" for what ASCII lacks
EncodeAsciiReplace(s) ==
    [err |-> "none", buf |-> [i \in 1..Len(s) |-> IF s[i] < 128 THEN s[i] ELSE 63]]

\* s.encode(encoding="ascii"): one byte per code point, or UnicodeEncodeError
EncodeAscii(s) ==
    IF IsAscii(s)
    THEN [err |-> "none", buf |-> s]
    ELSE [err |-> "UnicodeEncodeError", buf |-> <<>>]

\* s.encode(encoding="utf-8"): a lone surrogate is refused
EncodeUtf8(s) ==
    IF \E i \in 1..Len(s) : IsSurrogate(s[i])
    THEN [err |-> "UnicodeEncodeError", buf |-> <<>>]
    ELSE [err |-> "none", buf |-> Utf8Bytes(s)]

\* bytes(n): n zero bytes
ZeroBytes(n) == [i \in 1..n |-> 0]

\* the bug of a two byte terminator
TerminatorTwo == ZeroBytes(2)

\* the terminator the nul terminated writes append: bytes(1)
Terminator == ZeroBytes(1)

---------------------------------------------------------------------------
(* The file object open(output_path, "wb") returns. The file system takes  *)
(* every write and every seek to a position >= 0; only open may be refused. *)

\* the bug of opening in append mode: every write lands at the end
FileAppend(content, p, b) == content \o b

\* content after write(b) at position p: b replaces what lies at p.., a gap
\* between the old end and p reads as zero bytes, nothing else changes
FileWrite(content, p, b) ==
    IF Len(b) = 0 THEN content
    ELSE [i \in 1..Max(Len(content), p + Len(b)) |->
            IF i > p /\ i <= p + Len(b) THEN b[i - p]
            ELSE IF i <= Len(content) THEN content[i]
            ELSE 0]

\* seek(offset, whence): the new absolute position, or OSError below zero
FileSeek(content, p, offset, whence) ==
    LET base == CASE whence = SEEK_BEGINNING -> 0
                  [] whence = SEEK_CURRENT -> p
                  [] whence = SEEK_END -> Len(content)
        target == base + offset
    IN  IF target < 0
        THEN [err |-> "OSError", pos |-> p]
        ELSE [err |-> "none", pos |-> target]

\* what self.__fp.<attr>(...) raises when the handle is not an open file
HandleError ==
    CASE fp = "None" -> "AttributeError"
      [] fp = "closed" -> "ValueError"
      [] OTHER -> "none"

---------------------------------------------------------------------------
(* Calls *)

\* a call is made when no exception is in flight; an exception raised inside
\* a with body is on its way to __exit__
Call(op, arg, ret, err) ==
    /\ pending = "none"
    /\ last' = [op |-> op, arg |-> arg, ret |-> ret, err |-> err]
    /\ pending' = IF scope = "body" THEN err ELSE "none"

Raise(op, arg, err) ==
    /\ Call(op, arg, RRaise, err)
    /\ UNCHANGED <<ctor, endian, fp, sink, pos, scope, surfaced, budget>>

\* return self.__fp.write(buf)
FpWrite(op, arg, buf) ==
    IF HandleError # "none"
    THEN Raise(op, arg, HandleError)
    ELSE /\ budget > 0
         /\ sink' = FileWrite(sink, pos, buf)
         /\ pos' = pos + Len(buf)
         /\ budget' = budget - 1
         /\ Call(op, arg, RInt(Len(buf)), "none")
         /\ UNCHANGED <<ctor, endian, fp, scope, surfaced>>

\* buf = pack("{}c".format(self.__endian), n); return self.__fp.write(buf)
PackWrite(op, c, n) ==
    LET p == Pack(endian, c, n)
    IN  IF p.err # "none" THEN Raise(op, n, p.err) ELSE FpWrite(op, n, p.buf)

\* return self.__fp.write(s.encode(...) [+ bytes(1)])
EncodeWrite(op, s, enc, tail) ==
    IF enc.err # "none" THEN Raise(op, s, enc.err) ELSE FpWrite(op, s, enc.buf \o tail)

\* return self.__fp.seek(offset, whence)
FpSeek(op, arg, offset, whence) ==
    IF HandleError # "none"
    THEN Raise(op, arg, HandleError)
    ELSE LET r == FileSeek(sink, pos, offset, whence)
         IN  IF r.err # "none"
             THEN Raise(op, arg, r.err)
             ELSE /\ r.pos <= MaxPos
                  /\ pos' = r.pos
                  /\ Call(op, arg, RInt(r.pos), "none")
                  /\ UNCHANGED <<ctor, endian, fp, sink, scope, surfaced, budget>>

---------------------------------------------------------------------------
(* The methods of BinaryStreamWriter *)

\* the bug of the two prefixes swapped
EndianPrefixSwapped(e) == IF e = LITTLE_ENDIAN THEN ">" ELSE "<"

EndianPrefix(e) == IF e = LITTLE_ENDIAN THEN "<" ELSE ">"

Construct(e, b) ==
    /\ ctor = e
    /\ endian = EndianPrefix(e)
    /\ fp = "None"
    /\ sink = <<>>
    /\ pos = 0
    /\ scope = "out"
    /\ pending = "none"
    /\ surfaced = "none"
    /\ last = [op |-> "__init__", arg |-> <<e>>, ret |-> RNone, err |-> "none"]
    /\ budget = b

write_byte(n) == PackWrite("write_byte", "b", n)
write_ubyte(n) == PackWrite("write_ubyte", "B", n)
write_short(n) == PackWrite("write_short", "h", n)
write_ushort(n) == PackWrite("write_ushort", "H", n)
write_int(n) == PackWrite("write_int", "i", n)
write_uint(n) == PackWrite("write_uint", "I", n)
write_long(n) == PackWrite("write_long", "l", n)
write_ulong(n) == PackWrite("write_ulong", "L", n)

write_ascii_string(s) == EncodeWrite("write_ascii_string", s, EncodeAscii(s), <<>>)
write_ascii_nt_string(s) ==
    EncodeWrite("write_ascii_nt_string", s, EncodeAscii(s), Terminator)
write_utf8_string(s) == EncodeWrite("write_utf8_string", s, EncodeUtf8(s), <<>>)
write_utf8_nt_string(s) ==
    EncodeWrite("write_utf8_nt_string", s, EncodeUtf8(s), Terminator)

write(b) == FpWrite("write", b, b)

\* self.__fp = open(self.__output_path, "wb"); return self
\* The file is created or truncated; the environment may refuse (OSError).
\* A second open() on an open writer leaks the first file object, whose fate
\* is the garbage collector's: the callers modelled do not do it.
OpenFile(op, ok) ==
    /\ fp # "open"
    /\ IF ok
       THEN /\ fp' = "open"
            /\ sink' = <<>>
            /\ pos' = 0
            /\ Call(op, <<>>, RSelf, "none")
            /\ UNCHANGED <<ctor, endian, surfaced, budget>>
       ELSE /\ Call(op, <<>>, RRaise, "OSError")
            /\ UNCHANGED <<ctor, endian, fp, sink, pos, surfaced, budget>>

open == \E ok \in BOOLEAN : OpenFile("open", ok) /\ UNCHANGED scope

\* the bug of close() not closing the file object
CloseHandleKeepsOpen == fp

\* self.__fp.close(): the file object is closed and stays in self.__fp;
\* closing a closed file object does nothing
CloseHandle == IF fp = "open" THEN "closed" ELSE fp

close ==
    IF fp = "None"
    THEN Raise("close", <<>>, "AttributeError")
    ELSE /\ fp' = CloseHandle
         /\ Call("close", <<>>, RNone, "none")
         /\ UNCHANGED <<ctor, endian, sink, pos, scope, surfaced, budget>>

seek(offset, whence) == FpSeek("seek", <<offset, whence>>, offset, whence)

\* the bug of skip seeking from the beginning
skipFromStart(count) == FpSeek("skip", <<count>>, count, SEEK_BEGINNING)

skip(count) == FpSeek("skip", <<count>>, count, SEEK_CURRENT)

\* `with writer:` calls __enter__, which returns self.open(); when open()
\* raises, the body is not entered and the exception leaves the statement
enter ==
    /\ scope = "out"
    /\ \E ok \in BOOLEAN :
          /\ OpenFile("__enter__", ok)
          /\ scope' = IF ok THEN "body" ELSE "out"
          /\ surfaced' = IF ok THEN "none" ELSE "OSError"

\* __exit__(*e) returns self.close(); `swallow` is the truth of what it
\* returns. Leaving the body, normally or with an exception in flight, calls
\* it: when close() itself raises, that exception leaves the with statement;
\* else the exception in flight is raised again unless the result is true
ExitScope(ret, swallow) ==
    /\ scope = "body"
    /\ LET err == IF fp = "None" THEN "AttributeError" ELSE "none"
       IN  /\ fp' = CloseHandle
           /\ last' = [op |-> "__exit__", arg |-> <<>>,
                       ret |-> IF err = "none" THEN ret ELSE RRaise, err |-> err]
           /\ surfaced' = IF err # "none" THEN err
                          ELSE IF swallow THEN "none" ELSE pending
    /\ pending' = "none"
    /\ scope' = "out"
    /\ UNCHANGED <<ctor, endian, sink, pos, budget>>

\* the bug of __exit__ returning a true value: the exception is swallowed
exitSwallows == ExitScope(RSelf, TRUE)

\* return self.close(): None, which is falsy
exit == ExitScope(RNone, FALSE)

---------------------------------------------------------------------------
(* Arguments the callers pass *)

\* per numeric write: just below the range, its two ends, a value whose
\* bytes all differ, just above the range
ByteArgs == {N(-129), N(-128), N(1), N(127), N(128)}
UByteArgs == {N(-1), N(0), N(18), N(255), N(256)}
ShortArgs == {N(-32769), N(-32768), N(-2), N(32767), N(32768)}
UShortArgs == {N(-1), N(0), N(4660), N(65535), N(65536)}
IntArgs == {<<-32769, 65535>>, <<-32768, 0>>, <<4660, 22136>>, <<32767, 65535>>, <<32768, 0>>}
UIntArgs == {N(-1), N(0), <<57005, 48879>>, <<65535, 65535>>, <<65536, 0>>}
LongArgs == {<<-32769, 65535>>, <<-32768, 0>>, N(-2), <<32767, 65535>>, <<32768, 0>>}
ULongArgs == {N(-1), <<4660, 22136>>, <<65535, 65535>>, <<65536, 0>>}

Cafe == <<99, 97, 102, 233>>
\* "", "AB", NUL, "A" NUL "B", U+007F, U+0080, U+00E9, "cafe" with U+00E9,
\* U+20AC, the lone surrogate U+D800, U+1F600
StrArgs == {<<>>, <<65, 66>>, <<0>>, <<65, 0, 66>>, <<127>>, <<128>>, <<233>>, Cafe,
            <<8364>>, <<55296>>, <<128512>>}

RawArgs == {<<>>, <<170>>, <<187, 204>>}
Offsets == {-1, 0, 1, 4}
Whences == {SEEK_BEGINNING, SEEK_CURRENT, SEEK_END}

\* the lifecycle sessions pass one good and one bad argument to each write
LifeNumArgs == {N(1), <<65536, 0>>}
LifeStrArgs == {<<65>>, <<233>>}
LifeRawArgs == {<<170>>}
LifeOffsets == {-1, 0}

---------------------------------------------------------------------------
(* Specifications *)

Endians == {LITTLE_ENDIAN, BIG_ENDIAN}

\* lifecycle sessions: every method, inside and outside `with`
Init == \E e \in Endians : Construct(e, MaxLifeWrites)

Next ==
    \/ open
    \/ close
    \/ enter
    \/ exit
    \/ \E n \in LifeNumArgs : write_byte(n)
    \/ \E n \in LifeNumArgs : write_ubyte(n)
    \/ \E n \in LifeNumArgs : write_short(n)
    \/ \E n \in LifeNumArgs : write_ushort(n)
    \/ \E n \in LifeNumArgs : write_int(n)
    \/ \E n \in LifeNumArgs : write_uint(n)
    \/ \E n \in LifeNumArgs : write_long(n)
    \/ \E n \in LifeNumArgs : write_ulong(n)
    \/ \E s \in LifeStrArgs : write_ascii_string(s)
    \/ \E s \in LifeStrArgs : write_ascii_nt_string(s)
    \/ \E s \in LifeStrArgs : write_utf8_string(s)
    \/ \E s \in LifeStrArgs : write_utf8_nt_string(s)
    \/ \E b \in LifeRawArgs : write(b)
    \/ \E o \in LifeOffsets, w \in Whences : seek(o, w)
    \/ \E c \in LifeOffsets : skip(c)

Spec == Init /\ [][Next]_vars

\* numeric sessions: the eight numeric writes over the ends of their ranges
InitNum == \E e \in Endians : Construct(e, MaxNumWrites)

NextNum ==
    \/ open
    \/ \E n \in ByteArgs : write_byte(n)
    \/ \E n \in UByteArgs : write_ubyte(n)
    \/ \E n \in ShortArgs : write_short(n)
    \/ \E n \in UShortArgs : write_ushort(n)
    \/ \E n \in IntArgs : write_int(n)
    \/ \E n \in UIntArgs : write_uint(n)
    \/ \E n \in LongArgs : write_long(n)
    \/ \E n \in ULongArgs : write_ulong(n)

SpecNum == InitNum /\ [][NextNum]_vars

\* string sessions
InitStr == \E e \in Endians : Construct(e, MaxStrWrites)

NextStr ==
    \/ open
    \/ \E s \in StrArgs : write_ascii_string(s)
    \/ \E s \in StrArgs : write_ascii_nt_string(s)
    \/ \E s \in StrArgs : write_utf8_string(s)
    \/ \E s \in StrArgs : write_utf8_nt_string(s)

SpecStr == InitStr /\ [][NextStr]_vars

\* positioning sessions: raw writes, write_byte(1), seek and skip
InitPos == \E e \in Endians : Construct(e, MaxPosWrites)

NextPos ==
    \/ open
    \/ \E b \in RawArgs : write(b)
    \/ write_byte(N(1))
    \/ \E o \in Offsets, w \in Whences : seek(o, w)
    \/ \E c \in Offsets : skip(c)

SpecPos == InitPos /\ [][NextPos]_vars

---------------------------------------------------------------------------
(* What the claims speak of *)

NumOps == {"write_byte", "write_ubyte", "write_short", "write_ushort",
           "write_int", "write_uint", "write_long", "write_ulong"}
AsciiOps == {"write_ascii_string", "write_ascii_nt_string"}
Utf8Ops == {"write_utf8_string", "write_utf8_nt_string"}
NtOps == {"write_ascii_nt_string", "write_utf8_nt_string"}
WriteOps == NumOps \cup AsciiOps \cup Utf8Ops \cup {"write"}
WriteSeekOps == WriteOps \cup {"seek", "skip"}

\* the table of the specification: width in bytes and signedness
DeclaredWidth(op) ==
    CASE op \in {"write_byte", "write_ubyte"} -> 1
      [] op \in {"write_short", "write_ushort"} -> 2
      [] OTHER -> 4

DeclaredSigned(op) == op \in {"write_byte", "write_short", "write_int", "write_long"}

\* n lies in the range of the declared width and signedness
Representable(op, n) ==
    LET w == DeclaredWidth(op)
    IN  IF DeclaredSigned(op)
        THEN CASE w = 1 -> (n[1] = 0 /\ n[2] <= 127) \/ (n[1] = -1 /\ n[2] >= Half - 128)
               [] w = 2 -> (n[1] = 0 /\ n[2] <= 32767) \/ (n[1] = -1 /\ n[2] >= 32768)
               [] OTHER -> n[1] >= -32768 /\ n[1] <= 32767
        ELSE CASE w = 1 -> n[1] = 0 /\ n[2] <= 255
               [] w = 2 -> n[1] = 0
               [] OTHER -> n[1] >= 0 /\ n[1] <= 65535

\* an independent decoder: the integer that w bytes stand for
Decode(bytes, signed, e) ==
    LET lsb == IF e = LITTLE_ENDIAN THEN bytes ELSE Reverse(bytes)
        w == Len(bytes)
        B(i) == IF i <= w THEN lsb[i] ELSE 0
        lo == B(1) + (256 * B(2))
        hi == B(3) + (256 * B(4))
    IN  IF ~(signed /\ lsb[w] >= 128) THEN <<hi, lo>>
        ELSE CASE w = 1 -> <<-1, Half - 256 + lo>>
               [] w = 2 -> <<-1, lo>>
               [] OTHER -> <<hi - Half, lo>>

\* least and most significant byte of the w-byte pattern of n
LowByte(n) == n[2] % 256
HighByte(n, w) ==
    CASE w = 1 -> n[2] % 256
      [] w = 2 -> n[2] \div 256
      [] OTHER -> (n[1] % Half) \div 256

\* the bytes a step put into the sink, from the old position to the new one
Written == SubSeq(sink', pos + 1, pos')

Untouched == sink' = sink /\ pos' = pos /\ fp' = fp

\* the argument itself cannot be encoded, which is found before the handle
\* is used
BadArgError(op, arg) ==
    CASE op \in NumOps -> IF Representable(op, arg) THEN "none" ELSE "struct.error"
      [] op \in AsciiOps ->
            IF \A i \in 1..Len(arg) : arg[i] <= 127 THEN "none" ELSE "UnicodeEncodeError"
      [] op \in Utf8Ops ->
            IF \E i \in 1..Len(arg) : arg[i] \in 55296..57343
            THEN "UnicodeEncodeError" ELSE "none"
      [] OTHER -> "none"

---------------------------------------------------------------------------
\* C1: round trip. On an open writer, a numeric write of a value in the range
\* of its width and signedness succeeds, and decoding the bytes it put into
\* the sink with the same width, signedness and endianness gives the value.
C1_RoundTrip ==
    [][(last'.op \in NumOps /\ fp = "open" /\ Representable(last'.op, last'.arg))
        => /\ last'.err = "none"
           /\ Len(Written) = DeclaredWidth(last'.op)
           /\ Decode(Written, DeclaredSigned(last'.op), ctor) = last'.arg]_vars

C1_Witness ==
    /\ last.op = "write_byte" /\ last.err = "none" /\ last.arg = N(-128)
    /\ ctor = BIG_ENDIAN /\ sink = <<127, 128>>

\* C2: byte order. The byte order is the one chosen at construction and never
\* changes; a little-endian writer puts the least significant byte first, a
\* big-endian writer the most significant; exactly the width is written.
C2_ByteOrder ==
    [][/\ endian' = endian /\ ctor' = ctor
       /\ endian = (IF ctor = LITTLE_ENDIAN THEN "<" ELSE ">")
       /\ (last'.op \in NumOps /\ last'.err = "none")
            => LET w == DeclaredWidth(last'.op)
                   n == last'.arg
               IN  /\ Len(Written) = w
                   /\ Len(sink') = Max(Len(sink), pos + w)
                   /\ ctor = LITTLE_ENDIAN
                        => Written[1] = LowByte(n) /\ Written[w] = HighByte(n, w)
                   /\ ctor = BIG_ENDIAN
                        => Written[1] = HighByte(n, w) /\ Written[w] = LowByte(n)
                   /\ (last'.op = "write_ushort" /\ n = N(4660))
                        => Written = (IF ctor = LITTLE_ENDIAN
                                      THEN <<52, 18>> ELSE <<18, 52>>)]_vars

C2_Witness ==
    /\ last.op = "write_ushort" /\ last.err = "none" /\ last.arg = N(4660)
    /\ ctor = BIG_ENDIAN /\ sink = <<18, 52>>

\* C5: a numeric write that succeeds returns its declared width (4 for
\* write_long and write_ulong) and the cursor advances by that count,
\* whatever the value and the endianness.
C5_ReturnsWidth ==
    [][(last'.op \in NumOps /\ fp = "open")
        => /\ Representable(last'.op, last'.arg) => last'.err = "none"
           /\ last'.err = "none"
                => /\ last'.ret = RInt(DeclaredWidth(last'.op))
                   /\ pos' = pos + DeclaredWidth(last'.op)]_vars

C5_Witness ==
    /\ last.op = "write_ulong" /\ last.err = "none" /\ last.ret = RInt(4)
    /\ ctor = LITTLE_ENDIAN /\ pos = 8

\* C9 as claimed: on an open writer a value outside the range of the width is
\* not rejected by a range check.
C9_NoRangeCheck ==
    (fp = "open" /\ last.op \in NumOps /\ ~Representable(last.op, last.arg))
        => last.err # "struct.error"

\* C9 amended: a value outside the range of the width is rejected with
\* struct.error before the sink is used: nothing is written, the cursor
\* stays, and the value is neither clamped nor truncated.
C9_RangeChecked ==
    [][(last'.op \in NumOps /\ ~Representable(last'.op, last'.arg))
        => last'.err = "struct.error" /\ Untouched]_vars

C9_Witness ==
    /\ fp = "open" /\ last.op = "write_ubyte" /\ last.arg = N(256)
    /\ last.err = "struct.error" /\ Len(sink) = 4

---------------------------------------------------------------------------
C4_ScopedRelease ==
    [][/\ (last'.op = "__enter__" /\ last'.err = "none")
            => fp' = "open" /\ last'.ret = RSelf /\ scope' = "body"
       /\ (last'.op = "__enter__" /\ last'.err # "none")
            => fp' = fp /\ scope' = "out" /\ surfaced' = last'.err
       /\ (scope = "body" /\ scope' = "out")
            => last'.op = "__exit__" /\ fp' = "closed" /\ surfaced' = pending
       /\ (scope = "body" /\ pending # "none") => scope' = "out"
       /\ scope' = "body" => fp' # "None"]_vars

C4_Witness ==
    /\ last.op = "__exit__" /\ scope = "out" /\ fp = "closed"
    /\ surfaced = "UnicodeEncodeError" /\ Len(sink) > 0

\* C6: write(b) of N bytes on an open writer returns N, puts exactly b at the
\* position held before the call, moves the cursor by N and changes no other
\* byte of the sink; written before the end, it overwrites and does not
\* append.
C6_RawWrite ==
    [][(last'.op = "write" /\ fp = "open")
        => LET b == last'.arg
               n == Len(last'.arg)
           IN  /\ last'.err = "none"
               /\ last'.ret = RInt(n)
               /\ pos' = pos + n
               /\ n > 0 => Len(sink') = Max(Len(sink), pos + n)
               /\ n = 0 => sink' = sink
               /\ \A i \in 1..n : sink'[pos + i] = b[i]
               /\ \A i \in 1..Len(sink) : (i <= pos \/ i > pos + n) => sink'[i] = sink[i]]_vars

C6_Witness ==
    /\ last.op = "write" /\ last.err = "none" /\ last.arg = <<170>>
    /\ pos = 1 /\ sink = <<170, 204>>

\* what seek(c, from_current) does on an open writer: the cursor moves by c
\* and the new position is returned, nothing is written; below zero the call
\* fails and the cursor stays
SeekFromCurrent(c) ==
    /\ sink' = sink
    /\ fp' = fp
    /\ IF pos + c >= 0
       THEN last'.err = "none" /\ pos' = pos + c /\ last'.ret = RInt(pos + c)
       ELSE last'.err = "OSError" /\ pos' = pos /\ last'.ret = RRaise

\* C7: on an open writer skip(count) does what seek(count, from_current)
\* does, for positive and negative count; seek and skip return the new
\* absolute position; every successful write moves the cursor by the count
\* it returns, so the cursor is the start plus the bytes written and skipped.
C7_Positioning ==
    [][/\ (last'.op = "skip" /\ fp = "open") => SeekFromCurrent(last'.arg[1])
       /\ (last'.op = "seek" /\ fp = "open" /\ last'.arg[2] = SEEK_CURRENT)
            => SeekFromCurrent(last'.arg[1])
       /\ (last'.op \in {"seek", "skip"} /\ last'.err = "none")
            => last'.ret = RInt(pos') /\ sink' = sink
       /\ (last'.op \in WriteOps /\ last'.err = "none")
            => last'.ret[1] = "int" /\ pos' = pos + last'.ret[2]]_vars

C7_Witness ==
    /\ last.op = "write_byte" /\ last.arg = N(1) /\ last.err = "none"
    /\ pos = 5 /\ sink = <<0, 0, 0, 0, 1>>

\* C8 as claimed: on an open writer the ASCII writes refuse a string with a
\* code point above 127, and write_utf8_string of the same string succeeds.
C8_Utf8AlwaysSucceeds ==
    (fp = "open" /\ \E i \in 1..Len(last.arg) : last.arg[i] > 127)
        => /\ last.op \in AsciiOps => last.err = "UnicodeEncodeError"
           /\ last.op = "write_utf8_string" => last.err = "none"

\* C8 amended: on an open writer the ASCII writes of a string with a code
\* point above 127 fail with UnicodeEncodeError and write nothing: sink and
\* cursor are unchanged and the writer stays open; write_utf8_string of the
\* same string succeeds unless it holds a surrogate code point
\* (U+D800..U+DFFF), which UTF-8 refuses in the same way.
C8_AsciiHardFailure ==
    [][(fp = "open" /\ last'.op \in AsciiOps \cup {"write_utf8_string"}
          /\ \E i \in 1..Len(last'.arg) : last'.arg[i] > 127)
        => IF last'.op \in AsciiOps
              \/ \E i \in 1..Len(last'.arg) : last'.arg[i] \in 55296..57343
           THEN last'.err = "UnicodeEncodeError" /\ last'.ret = RRaise
                /\ Untouched /\ fp' = "open"
           ELSE last'.err = "none" /\ Len(Written) > Len(last'.arg)]_vars

C8_Witness ==
    /\ fp = "open" /\ last.op = "write_ascii_nt_string" /\ last.arg = Cafe
    /\ last.err = "UnicodeEncodeError" /\ sink = <<99, 97, 102, 195, 169>>

\* the payload of a string write: what the variant without terminator writes
Payload(op, s) == IF op \in AsciiOps THEN EncodeAscii(s).buf ELSE EncodeUtf8(s).buf

\* C10: on an open writer a string write of an encodable string succeeds; the
\* variants without terminator write the payload and return its length; the
\* nul terminated variants write the same payload followed by one 0x00 and
\* return the length plus 1; "AB" gives 41 42 and 41 42 00.
C10_NulTerminated ==
    [][(last'.op \in AsciiOps \cup Utf8Ops /\ fp = "open"
          /\ BadArgError(last'.op, last'.arg) = "none")
        => LET s == last'.arg
               pay == Payload(last'.op, s)
           IN  /\ last'.err = "none"
               /\ Len(pay) >= Len(s)
               /\ last'.op \in AsciiOps => pay = s
               /\ last'.op \notin NtOps
                    => Written = pay /\ last'.ret = RInt(Len(pay))
               /\ last'.op \in NtOps
                    => /\ Written = pay \o <<0>>
                       /\ last'.ret = RInt(Len(pay) + 1)
               /\ s = <<65, 66>>
                    => Written = (IF last'.op \in NtOps THEN <<65, 66, 0>> ELSE <<65, 66>>)
               /\ (s = Cafe /\ last'.op = "write_utf8_string")
                    => Written = <<99, 97, 102, 195, 169>>]_vars

C10_Witness ==
    /\ last.op = "write_utf8_nt_string" /\ last.arg = <<65, 0, 66>>
    /\ last.err = "none" /\ last.ret = RInt(4) /\ sink = <<65, 0, 66, 0>>

=============================================================================
